---------------------------- MODULE Spec2Model ----------------------------
(***************************************************************************)
(* A model of the command interpreter of src/shell.c: the read loop of     *)
(* shell(), the tokenizer/assembler and the logical-operator dispatch of   *)
(* execute_command(), the built-in executor, the external executor         *)
(* (fork / exec / wait, redirection, background launch), the job table and *)
(* the reap poll.                                                          *)
(*                                                                         *)
(* C strings are TLA+ strings; a character is a string of length 1 and     *)
(* the NULL pointer is the value NULL.  The operating system is modelled   *)
(* by a process table (procs), a file table (fs) and a working directory.  *)
(***************************************************************************)
EXTENDS Integers, Sequences, FiniteSets, TLC

(***************************************************************************)
(* Bounds of the model.                                                    *)
(***************************************************************************)
\* Lines read from standard input in one session.
MaxLines == 2
\* Process ids the system can hand out to children (2 .. MaxPid); fork()
\* fails with resource exhaustion once they are used up.
MaxPid == 3
\* Nested execute_command() invocations (through #<n> and !<prefix>) the
\* call stack can hold before it overflows.
MaxDepth == 5
\* SIGINT signals delivered to the shell in one session.
MaxSignals == 1

\* The shell's own process id (getpid() in shell()).
ShellPid == 1

\* The NULL pointer.
NULL == "<NULL>"
\* End of input on stdin.
EOF == "<EOF>"
\* A file that does not exist.
ABSENT == "<ABSENT>"
\* The bytes an uninitialised heap block may hold in front of its first zero.
GARBAGE == "<?>"

(***************************************************************************)
(* Strings.                                                                *)
(***************************************************************************)
\* The character at position i (from 1); the terminating zero, written "",
\* outside the string.
Ch(s, i) == IF i \in 1 .. Len(s) THEN SubSeq(s, i, i) ELSE ""

LastCh(s) == Ch(s, Len(s))

DropLast(s) == SubSeq(s, 1, Len(s) - 1)

\* trim_space(): removes ONE trailing space, newline or carriage return.
trim_space(s) ==
    IF Len(s) > 0 /\ LastCh(s) \in {" ", "\n", "\r"} THEN DropLast(s) ELSE s

\* strtok(s, " ") called until it returns NULL: the maximal runs of
\* characters other than the space.
RECURSIVE TokensFrom(_, _, _)
TokensFrom(s, i, cur) ==
    IF i > Len(s)
    THEN IF cur = "" THEN <<>> ELSE <<cur>>
    ELSE IF Ch(s, i) = " "
         THEN IF cur = ""
              THEN TokensFrom(s, i + 1, "")
              ELSE <<cur>> \o TokensFrom(s, i + 1, "")
         ELSE TokensFrom(s, i + 1, cur \o Ch(s, i))

Tokens(s) == TokensFrom(s, 1, "")

\* strncmp(prefix, s, strlen(prefix)) == 0
HasPrefix(prefix, s) ==
    Len(s) >= Len(prefix) /\ SubSeq(s, 1, Len(prefix)) = prefix

IsDigit(c) == c \in {"0", "1", "2", "3", "4", "5", "6", "7", "8", "9"}

DigitVal(c) ==
    CASE c = "0" -> 0 [] c = "1" -> 1 [] c = "2" -> 2 [] c = "3" -> 3
      [] c = "4" -> 4 [] c = "5" -> 5 [] c = "6" -> 6 [] c = "7" -> 7
      [] c = "8" -> 8 [] c = "9" -> 9

RECURSIVE DigitsFrom(_, _, _)
DigitsFrom(s, i, acc) ==
    IF i <= Len(s) /\ IsDigit(Ch(s, i))
    THEN DigitsFrom(s, i + 1, 10 * acc + DigitVal(Ch(s, i)))
    ELSE acc

\* atoi(): an optional sign, then the leading decimal digits; 0 without any.
atoi(s) ==
    IF Len(s) > 0 /\ Ch(s, 1) = "-" THEN 0 - DigitsFrom(s, 2, 0)
    ELSE IF Len(s) > 0 /\ Ch(s, 1) = "+" THEN DigitsFrom(s, 2, 0)
    ELSE DigitsFrom(s, 1, 0)

\* The words of a sequence of strings joined by single spaces.
RECURSIVE Join(_)
Join(ws) ==
    IF ws = <<>> THEN ""
    ELSE IF Len(ws) = 1 THEN ws[1]
    ELSE ws[1] \o " " \o Join(Tail(ws))


(***************************************************************************)
(* The tokenizer and command assembler: the while loop of                  *)
(* execute_command().  The loop state is the commands vector (cmds), the   *)
(* logical operator seen last (op), the command being assembled (cur),     *)
(* the redirection targets the loop stores into current_process (NULL when *)
(* the loop stores none), and two flags: segv, the loop dereferenced a     *)
(* NULL pointer; overrun, the loop wrote past the end of current_command   *)
(* (strcat without realloc).                                               *)
(***************************************************************************)
ParseStart ==
    [cmds |-> <<>>, op |-> NULL, cur |-> NULL,
     out |-> NULL, app |-> NULL, inp |-> NULL,
     segv |-> FALSE, overrun |-> FALSE]

\* The token is "&&" or "||".
ParseAndOr(st, tok) ==
    IF st.cur # NULL
    THEN [st EXCEPT !.op = tok, !.cmds = Append(@, trim_space(st.cur)),
                    !.cur = NULL]
    ELSE [st EXCEPT !.op = tok]

\* The token ends in ';': the semicolon is cut off, the rest closes the
\* command being assembled.
ParseSemicolon(st, tok) ==
    LET t == DropLast(tok)
    IN  IF st.cur # NULL
        THEN [st EXCEPT !.op = ";",
                        !.cmds = Append(@, trim_space(st.cur \o " " \o t)),
                        !.cur = NULL]
        ELSE [st EXCEPT !.op = ";", !.cmds = Append(@, trim_space(t)),
                        !.cur = NULL]

\* The token is ">", ">>" or "<"; next is the following token (NULL when
\* there is none: trim_space(NULL) then reads through the NULL pointer).
\* The command assembled so far is pushed as it is, NULL included.
ParseRedirect(st, tok, next) ==
    IF next = NULL
    THEN [st EXCEPT !.segv = TRUE]
    ELSE LET s1 == [st EXCEPT !.cmds = Append(@, st.cur)]
         IN  CASE tok = ">"  -> [s1 EXCEPT !.out = trim_space(next)]
               [] tok = ">>" -> [s1 EXCEPT !.app = trim_space(next)]
               [] tok = "<"  -> [s1 EXCEPT !.inp = trim_space(next)]

\* The token is "&": strcat() onto current_command, which was allocated for
\* its present length (and is NULL when no token came before).
ParseAmpersand(st, tok) ==
    IF st.cur = NULL
    THEN [st EXCEPT !.segv = TRUE]
    ELSE [st EXCEPT !.cur = st.cur \o " " \o tok, !.overrun = TRUE]

\* Any other token is appended to the command being assembled; the command
\* is pushed when this was the last token of the line.
ParseWord(st, tok, last) ==
    LET c == IF st.cur = NULL THEN tok ELSE st.cur \o " " \o tok
    IN  IF last
        THEN [st EXCEPT !.cur = trim_space(c),
                        !.cmds = Append(@, trim_space(c))]
        ELSE [st EXCEPT !.cur = c]

RECURSIVE ParseLoop(_, _, _)
ParseLoop(toks, i, st) ==
    IF i > Len(toks) \/ st.segv THEN st
    ELSE LET tok == toks[i]
             next == IF i < Len(toks) THEN toks[i + 1] ELSE NULL
         IN  IF tok \in {"&&", "||"}
             THEN ParseLoop(toks, i + 1, ParseAndOr(st, tok))
             ELSE IF LastCh(tok) = ";"
             THEN ParseLoop(toks, i + 1, ParseSemicolon(st, tok))
             ELSE IF tok \in {">", ">>", "<"}
             THEN ParseRedirect(st, tok, next)
             ELSE IF tok = "&"
             THEN ParseLoop(toks, i + 1, ParseAmpersand(st, tok))
             ELSE ParseLoop(toks, i + 1, ParseWord(st, tok, i = Len(toks)))

\* The assembly of one command text.
Parse(command) == ParseLoop(Tokens(command), 1, ParseStart)


(***************************************************************************)
(* The state.                                                              *)
(***************************************************************************)
VARIABLES
    pc,                 \* where the shell process is: "prompt" (top of the
                        \* read loop), "exec" (inside execute_command),
                        \* "reap" (execute_command returned; the reap poll
                        \* is next), "exited" (exit(0)), "crashed" (ended by
                        \* a fault: NULL dereference, failed assertion,
                        \* stack overflow)
    command,            \* current_process->command: the line read last
    stack,              \* the execute_command() invocations in progress,
                        \* innermost last
    previous_commands,  \* current_process->previous_commands
    history_file,       \* current_process->history_file is set
    hfile,              \* the lines of the history file
    background_jobs,    \* current_process->background_jobs (PIDs)
    background_jobs_commands,
    output_file,        \* current_process->output_file
    append_file,        \* current_process->append_file
    input_file,         \* current_process->input_file
    procs,              \* the children the system knows: PID -> state
    exitcode,           \* PID -> the status its program exits with
    fs,                 \* the files: path -> content
    cwd,                \* the working directory of the shell process
    nread,              \* lines read so far
    menu,               \* which set of lines the user types from
    trace,              \* the commands dispatched for the line read last
    hist0,              \* previous_commands when the line was read
    sigints             \* SIGINT signals delivered to the shell so far

vars ==
    <<pc, command, stack, previous_commands, history_file, hfile,
      background_jobs, background_jobs_commands, output_file, append_file,
      input_file, procs, exitcode, fs, cwd, nread, menu, trace, hist0,
      sigints>>

\* PIDs of children.
Pids == 2 .. MaxPid

\* "none": never forked; "running"; "stopped" (SIGSTOP); "dying" (SIGKILL
\* sent, the process has not yet terminated); "zombie" (exited, not yet
\* waited for); "killed" (ended by the signal, not yet waited for); "gone"
\* (waited for).
ProcStates ==
    {"none", "running", "stopped", "dying", "zombie", "killed", "gone"}

Terminated == {"zombie", "killed"}

\* A status not yet returned.
PENDING == 0 - 1

\* A redirection field that points into a freed copy of the line.
DANGLING == "<freed>"

(***************************************************************************)
(* The operating system.                                                   *)
(***************************************************************************)
\* kill(pid, sig) finds a process: one that was forked and not yet waited for.
ProcessExists(ps, pid) ==
    /\ pid \in DOMAIN ps
    /\ ps[pid] \in {"running", "stopped", "dying", "zombie", "killed"}

\* The process table after kill(pid, sig) on an existing process.
Signal(ps, pid, sig) ==
    CASE sig = "SIGKILL" /\ ps[pid] \in {"running", "stopped"} ->
            [ps EXCEPT ![pid] = "dying"]
      [] sig = "SIGSTOP" /\ ps[pid] = "running" ->
            [ps EXCEPT ![pid] = "stopped"]
      [] sig = "SIGCONT" /\ ps[pid] = "stopped" ->
            [ps EXCEPT ![pid] = "running"]
      [] OTHER -> ps

\* waitpid(pid, &status, WNOHANG): pid for a terminated child (which is
\* thereby reaped), 0 for a child that has not terminated, -1 for no child.
WaitNoHang(ps, pid) ==
    IF pid \in DOMAIN ps /\ ps[pid] \in Terminated THEN pid
    ELSE IF ProcessExists(ps, pid) THEN 0
    ELSE -1

\* The PID fork() hands out next; 0 when none is left.
FreePid(ps) ==
    IF \E p \in Pids : ps[p] = "none"
    THEN CHOOSE p \in Pids : ps[p] = "none" /\ \A q \in Pids : q < p => ps[q] # "none"
    ELSE 0

\* Paths open() cannot create a file at.
CannotCreate(path) == path = "" \/ HasPrefix("nodir/", path)

(***************************************************************************)
(* The child process of execute_external_command(): redirection, then the  *)
(* program.  junk: what a DANGLING path reads as lets open() succeed.      *)
(***************************************************************************)
\* The programs on the PATH: what they write to standard output given the
\* argument vector and standard input, and their exit status.  Any other
\* name makes execvp() fail.
Programs == {"true", "false", "sleep", "echo", "cat"}

ProgramOutput(args, stdin) ==
    CASE args[1] = "echo" -> Join(Tail(args)) \o "\n"
      [] args[1] = "cat"  -> stdin
      [] OTHER -> ""

ProgramStatus(args) == IF args[1] = "false" THEN 1 ELSE 0

\* open(path, O_RDWR | O_CREAT) then writing text at offset 0: the file is
\* created when absent and is NOT truncated.
WriteAtStart(files, path, text) ==
    LET old == IF files[path] = ABSENT THEN "" ELSE files[path]
    IN  [files EXCEPT ![path] =
            IF Len(text) >= Len(old) THEN text
            ELSE text \o SubSeq(old, Len(text) + 1, Len(old))]

\* open(path, O_RDWR | O_APPEND | O_CREAT) then writing text.
WriteAtEnd(files, path, text) ==
    LET old == IF files[path] = ABSENT THEN "" ELSE files[path]
    IN  [files EXCEPT ![path] = old \o text]

\* A path the file table knows, or the name a dangling pointer reads as.
PathOf(field) == IF field = DANGLING THEN GARBAGE ELSE field

OpenOutFails(field, files, junk) ==
    IF field = DANGLING THEN ~junk
    ELSE CannotCreate(field) \/ field \notin DOMAIN files

OpenInFails(field, files, junk) ==
    IF field = DANGLING THEN ~junk
    ELSE field \notin DOMAIN files \/ files[field] = ABSENT

\* How the child ends and the files it leaves behind: exited is WIFEXITED,
\* code is WEXITSTATUS.  killed: a signal ends the program before it writes.
\* says is what the child prints through format.h after
\* print_command_executed(); ends is how it leaves the code of the shell:
\*   "exit"    it calls exit()
\*   "image"   execvp() replaced the program image
\*   "return"  it returns from execute_external_command()
ChildEnd(exited, code, files, why, says, ends) ==
    [exited |-> exited, code |-> code, fs |-> files, why |-> why,
     says |-> says, ends |-> ends]

\* The child returning from execute_external_command() when execvp() fails
\* instead of calling exit(1).
ChildRun_ExecFailureReturns(cmd, out, app, inp, files, junk, killed) ==
    LET args == Tokens(cmd)
        f1 == IF out # NULL /\ ~OpenOutFails(out, files, junk)
              THEN WriteAtStart(files, PathOf(out), "") ELSE files
        f2 == IF app # NULL /\ ~OpenOutFails(app, f1, junk)
              THEN WriteAtEnd(f1, PathOf(app), "") ELSE f1
        stdin == IF inp # NULL THEN f2[PathOf(inp)] ELSE ""
        text == ProgramOutput(args, stdin)
    IN  IF out # NULL /\ OpenOutFails(out, files, junk)
        THEN ChildEnd(TRUE, 1, files, "redirection",
                      "redirection_file_error", "exit")
        ELSE IF app # NULL /\ OpenOutFails(app, f1, junk)
        THEN ChildEnd(TRUE, 1, f1, "redirection",
                      "redirection_file_error", "exit")
        ELSE IF inp # NULL /\ OpenInFails(inp, f2, junk)
        THEN ChildEnd(TRUE, 1, f2, "redirection",
                      "redirection_file_error", "exit")
        ELSE IF args = <<>> \/ args[1] \notin Programs
        THEN ChildEnd(TRUE, 0, f2, "exec", "exec_failed", "return")
        ELSE IF killed
        THEN ChildEnd(FALSE, 0, f2, "signal", "", "image")
        ELSE ChildEnd(TRUE, ProgramStatus(args),
                      IF app # NULL THEN WriteAtEnd(f2, PathOf(app), text)
                      ELSE IF out # NULL THEN WriteAtStart(f2, PathOf(out), text)
                      ELSE f2,
                      "program", "", "image")

\* The child branch of execute_external_command().  (A text without any
\* word would give execvp() no program name; no command of the sessions
\* below is one.)
ChildRun(cmd, out, app, inp, files, junk, killed) ==
    LET args == Tokens(cmd)
        f1 == IF out # NULL /\ ~OpenOutFails(out, files, junk)
              THEN WriteAtStart(files, PathOf(out), "") ELSE files
        f2 == IF app # NULL /\ ~OpenOutFails(app, f1, junk)
              THEN WriteAtEnd(f1, PathOf(app), "") ELSE f1
        stdin == IF inp # NULL THEN f2[PathOf(inp)] ELSE ""
        text == ProgramOutput(args, stdin)
    IN  IF out # NULL /\ OpenOutFails(out, files, junk)
        THEN ChildEnd(TRUE, 1, files, "redirection",
                      "redirection_file_error", "exit")
        ELSE IF app # NULL /\ OpenOutFails(app, f1, junk)
        THEN ChildEnd(TRUE, 1, f1, "redirection",
                      "redirection_file_error", "exit")
        ELSE IF inp # NULL /\ OpenInFails(inp, f2, junk)
        THEN ChildEnd(TRUE, 1, f2, "redirection",
                      "redirection_file_error", "exit")
        ELSE IF args = <<>> \/ args[1] \notin Programs
        THEN ChildEnd(TRUE, 1, f2, "exec", "exec_failed", "exit")
        ELSE IF killed
        THEN ChildEnd(FALSE, 0, f2, "signal", "", "image")
        ELSE ChildEnd(TRUE, ProgramStatus(args),
                      IF app # NULL THEN WriteAtEnd(f2, PathOf(app), text)
                      ELSE IF out # NULL THEN WriteAtStart(f2, PathOf(out), text)
                      ELSE f2,
                      "program", "", "image")

(***************************************************************************)
(* What one dispatched command does.  An effect names how the command      *)
(* ends (kind) and every part of the state it may change:                  *)
(*   "return"  it returns ret to execute_command()                         *)
(*   "call"    it calls execute_command(callee), callee being entry hidx   *)
(*             of previous_commands                                        *)
(*   "exit"    exit(0)                                                     *)
(*   "segv"    it dereferences a NULL pointer                              *)
(* msg is the message it prints through format.h, rows the process rows    *)
(* `ps` prints, each a PID and a command text; unreadable holds the PIDs    *)
(* whose /proc files fopen() cannot open; pid, bg and child                *)
(* describe the child of an external command or the target of a signal.    *)
(***************************************************************************)
NoChild == [exited |-> TRUE, code |-> 0, why |-> "none", says |-> "",
            ends |-> "none"]

Effect ==
    [kind |-> "return", ret |-> 0, msg |-> "", ext |-> FALSE,
     procs |-> procs, exitcode |-> exitcode, cwd |-> cwd, fs |-> fs,
     jobs |-> background_jobs, jobcmds |-> background_jobs_commands,
     out |-> output_file, app |-> append_file, inp |-> input_file,
     cleared |-> FALSE, pid |-> 0, bg |-> FALSE, child |-> NoChild,
     callee |-> NULL, hidx |-> 0, rows |-> <<>>, unreadable |-> {}]

\* kill_process(), stop_process(), continue_process(): the signal is sent;
\* the only trace of a failure is the message.
SendSignal(e, pid, sig, done) ==
    IF ProcessExists(e.procs, pid)
    THEN [e EXCEPT !.procs = Signal(e.procs, pid, sig), !.msg = done, !.pid = pid]
    ELSE [e EXCEPT !.msg = "no_process_found", !.pid = pid]

kill_process(e, pid) == SendSignal(e, pid, "SIGKILL", "killed_process")

stop_process(e, pid) == SendSignal(e, pid, "SIGSTOP", "stopped_process")

continue_process(e, pid) == SendSignal(e, pid, "SIGCONT", "continued_process")

\* exit_shell(): kill_process() on every job, then exit(0).
RECURSIVE KillAll(_, _, _)
KillAll(e, jobs, i) ==
    IF i > Len(jobs) THEN e ELSE KillAll(kill_process(e, jobs[i]), jobs, i + 1)

\* exit_shell() with the loop left after its first job.
exit_shell_FirstJobOnly(e) ==
    [KillAll(e, IF e.jobs = <<>> THEN <<>> ELSE <<e.jobs[1]>>, 1)
        EXCEPT !.kind = "exit", !.msg = ""]

exit_shell(e) == [KillAll(e, e.jobs, 1) EXCEPT !.kind = "exit", !.msg = ""]

\* The directories that exist.
Dirs == {"/", "/home", "/home/a", "/home/a/b"}

\* execute_cd() with a relative path resolved against the directory the
\* shell was started in.
execute_cd_FromStartDirectory(e, path) ==
    LET new_path == IF Ch(path, 1) # "/" THEN "/home/" \o path ELSE path
    IN  IF new_path \in Dirs
        THEN [e EXCEPT !.cwd = new_path]
        ELSE [e EXCEPT !.ret = 1, !.msg = "no_directory"]

\* execute_cd(): a path not starting with '/' is appended to getcwd().
execute_cd(e, path) ==
    LET new_path == IF Ch(path, 1) # "/"
                    THEN (IF e.cwd = "/" THEN "" ELSE e.cwd) \o "/" \o path
                    ELSE path
    IN  IF new_path \in Dirs
        THEN [e EXCEPT !.cwd = new_path]
        ELSE [e EXCEPT !.ret = 1, !.msg = "no_directory"]

\* execute_history()
execute_history(e) == [e EXCEPT !.msg = "history"]

\* execute_n() with the invalid index reported but status 0 returned.
execute_n_ReturnsZero(e, n) ==
    IF n < 0 \/ n >= Len(previous_commands)
    THEN [e EXCEPT !.ret = 0, !.msg = "invalid_index"]
    ELSE [e EXCEPT !.kind = "call", !.callee = previous_commands[n + 1],
                   !.hidx = n + 1, !.msg = "command"]

\* execute_n()
execute_n(e, n) ==
    IF n < 0 \/ n >= Len(previous_commands)
    THEN [e EXCEPT !.ret = 1, !.msg = "invalid_index"]
    ELSE [e EXCEPT !.kind = "call", !.callee = previous_commands[n + 1],
                   !.hidx = n + 1, !.msg = "command"]

\* execute_prefix() scanning the history from its oldest entry.
execute_prefix_OldestFirst(e, prefix) ==
    LET hits == {i \in 1 .. Len(previous_commands) :
                    HasPrefix(prefix, previous_commands[i])}
    IN  IF hits = {}
        THEN [e EXCEPT !.ret = 1, !.msg = "no_history_match"]
        ELSE LET i == CHOOSE k \in hits : \A j \in hits : j >= k
             IN  [e EXCEPT !.kind = "call", !.callee = previous_commands[i],
                           !.hidx = i, !.msg = "command"]

\* execute_prefix(): the newest entry that starts with prefix.
execute_prefix(e, prefix) ==
    LET hits == {i \in 1 .. Len(previous_commands) :
                    HasPrefix(prefix, previous_commands[i])}
    IN  IF hits = {}
        THEN [e EXCEPT !.ret = 1, !.msg = "no_history_match"]
        ELSE LET i == CHOOSE k \in hits : \A j \in hits : j <= k
             IN  [e EXCEPT !.kind = "call", !.callee = previous_commands[i],
                           !.hidx = i, !.msg = "command"]

\* The rows of execute_ps(): index i of background_jobs with the text at
\* index i of background_jobs_commands.
JobRows(e) == [i \in 1 .. Len(e.jobs) |-> <<e.jobs[i], e.jobcmds[i]>>]

\* execute_ps() printing the shell's own row before the rows of the jobs.
execute_ps_ShellFirst(e) ==
    IF \E i \in 1 .. Len(e.jobs) :
          ~ProcessExists(e.procs, e.jobs[i]) \/ e.jobs[i] \in e.unreadable
    THEN [e EXCEPT !.kind = "segv"]
    ELSE [e EXCEPT !.msg = "ps",
                   !.rows = <<<<ShellPid, "./shell">>>> \o JobRows(e)]

\* execute_ps(): get_process_info() opens /proc/<pid>/status without
\* checking the result, for every job and then for the shell itself, and
\* hands the stream to getline().
execute_ps(e) ==
    IF \E i \in 1 .. Len(e.jobs) :
          ~ProcessExists(e.procs, e.jobs[i]) \/ e.jobs[i] \in e.unreadable
    THEN [e EXCEPT !.kind = "segv"]
    ELSE [e EXCEPT !.msg = "ps",
                   !.rows = JobRows(e) \o <<<<ShellPid, "./shell">>>>]

\* is_builtin_command(); its token, when there is one, is trimmed.
is_builtin_command(cmd) ==
    LET token == trim_space(Tokens(cmd)[1])
    IN  \/ token \in {"stop", "cont", "kill", "exit", "cd", "!history", "ps"}
        \/ Ch(token, 1) \in {"#", "!"}

\* execute_builtin_command()
execute_builtin_command(e, cmd) ==
    LET toks == Tokens(cmd)
        token == toks[1]
        none == Len(toks) < 2
        invalid == [e EXCEPT !.ret = 1, !.msg = "invalid_command"]
    IN  IF token = "cd"
        THEN IF none THEN invalid ELSE execute_cd(e, toks[2])
        ELSE IF token = "!history" THEN execute_history(e)
        ELSE IF Ch(token, 1) = "#"
        THEN execute_n(e, atoi(SubSeq(token, 2, Len(token))))
        ELSE IF Ch(token, 1) = "!"
        THEN execute_prefix(e, SubSeq(cmd, 2, Len(cmd)))
        ELSE IF token = "exit" THEN exit_shell(e)
        ELSE IF token = "kill"
        THEN IF none THEN invalid ELSE kill_process(e, atoi(toks[2]))
        ELSE IF token = "stop"
        THEN IF none THEN invalid ELSE stop_process(e, atoi(toks[2]))
        ELSE IF token = "cont"
        THEN IF none THEN invalid ELSE continue_process(e, atoi(toks[2]))
        ELSE IF token = "ps" THEN execute_ps(e)
        ELSE invalid

\* add_background_job() and the push onto background_jobs_commands.
add_background_job(e, pid, text) ==
    [e EXCEPT !.jobs = Append(@, pid), !.jobcmds = Append(@, text)]

\* The end of execute_external_command(): the three redirection fields are
\* reset.
ClearRedirection(e) ==
    [e EXCEPT !.out = NULL, !.app = NULL, !.inp = NULL, !.cleared = TRUE]

\* execute_external_command() without the test of WEXITSTATUS: the exit
\* status of a foreground child is not looked at.
execute_external_command_IgnoresStatus(e, cmd, forks, killed, junk) ==
    LET background == LastCh(cmd) = "&"
        text == IF background THEN DropLast(cmd) ELSE cmd
        pid == FreePid(e.procs)
        child == ChildRun(text, e.out, e.app, e.inp, e.fs, junk,
                          killed /\ ~background)
        x == [e EXCEPT !.ext = TRUE, !.bg = background]
    IN  IF ~forks \/ pid = 0
        THEN [x EXCEPT !.ret = 1, !.msg = "fork_failed"]
        ELSE IF ~background
        THEN LET w == [x EXCEPT !.pid = pid, !.child = child, !.fs = child.fs]
             IN  IF ~child.exited
                 THEN [w EXCEPT !.ret = 1, !.msg = "wait_failed"]
                 ELSE ClearRedirection(w)
        ELSE ClearRedirection(
                add_background_job(
                    [x EXCEPT !.pid = pid, !.fs = child.fs, !.child = child,
                              !.procs = [e.procs EXCEPT ![pid] = "running"],
                              !.exitcode = [e.exitcode EXCEPT ![pid] = child.code]],
                    pid, text))

\* execute_external_command() registering a background job before it
\* looks at what fork() returned.
execute_external_command_RegistersFailedFork(e, cmd, forks, killed, junk) ==
    LET background == LastCh(cmd) = "&"
        text == IF background THEN DropLast(cmd) ELSE cmd
        pid == FreePid(e.procs)
        child == ChildRun(text, e.out, e.app, e.inp, e.fs, junk,
                          killed /\ ~background)
        x == [e EXCEPT !.ext = TRUE, !.bg = background]
    IN  IF ~forks \/ pid = 0
        THEN IF background
             THEN add_background_job(
                     [x EXCEPT !.ret = 1, !.msg = "fork_failed"], 0 - 1, text)
             ELSE [x EXCEPT !.ret = 1, !.msg = "fork_failed"]
        ELSE IF ~background
        THEN LET w == [x EXCEPT !.pid = pid, !.child = child, !.fs = child.fs]
             IN  IF ~child.exited
                 THEN [w EXCEPT !.ret = 1, !.msg = "wait_failed"]
                 ELSE IF child.code # 0
                 THEN [w EXCEPT !.ret = 1]
                 ELSE ClearRedirection(w)
        ELSE ClearRedirection(
                add_background_job(
                    [x EXCEPT !.pid = pid, !.fs = child.fs, !.child = child,
                              !.procs = [e.procs EXCEPT ![pid] = "running"],
                              !.exitcode = [e.exitcode EXCEPT ![pid] = child.code]],
                    pid, text))

\* execute_external_command().  forks: fork() succeeds; killed: a signal
\* ends the child; junk: see ChildRun.  A foreground child is waited for
\* before the function returns, and its PID is free again; a background
\* child keeps its PID for the rest of the session.
execute_external_command(e, cmd, forks, killed, junk) ==
    LET background == LastCh(cmd) = "&"
        text == IF background THEN DropLast(cmd) ELSE cmd
        pid == FreePid(e.procs)
        child == ChildRun(text, e.out, e.app, e.inp, e.fs, junk,
                          killed /\ ~background)
        x == [e EXCEPT !.ext = TRUE, !.bg = background]
    IN  IF ~forks \/ pid = 0
        THEN [x EXCEPT !.ret = 1, !.msg = "fork_failed"]
        ELSE IF ~background
        THEN LET w == [x EXCEPT !.pid = pid, !.child = child, !.fs = child.fs]
             IN  IF ~child.exited
                 THEN [w EXCEPT !.ret = 1, !.msg = "wait_failed"]
                 ELSE IF child.code # 0
                 THEN [w EXCEPT !.ret = 1]
                 ELSE ClearRedirection(w)
        ELSE ClearRedirection(
                add_background_job(
                    [x EXCEPT !.pid = pid, !.fs = child.fs, !.child = child,
                              !.procs = [e.procs EXCEPT ![pid] = "running"],
                              !.exitcode = [e.exitcode EXCEPT ![pid] = child.code]],
                    pid, text))

(***************************************************************************)
(* execute_command() as a frame of the call stack.                         *)
(*   command  the text passed in (what the history records)                *)
(*   cmds,op  the commands vector and logical_operator after the loop      *)
(*   pos      0: the first command is next; 1: the second command is       *)
(*            next; 2: both are done, the history is next                  *)
(*   hidx     the entry of previous_commands that `command` points to, 0   *)
(*            when it points to the line read                              *)
(*   own      the redirection fields that point into this invocation's     *)
(*            copy_command                                                 *)
(*   tix      the entry of trace that called this invocation, 0 for none   *)
(***************************************************************************)
Frame(text, p, hidx, tix) ==
    [command |-> text, cmds |-> p.cmds, op |-> p.op, pos |-> 0,
     hidx |-> hidx,
     own |-> {f \in {"out", "app", "inp"} :
                 (f = "out" /\ p.out # NULL) \/ (f = "app" /\ p.app # NULL)
                 \/ (f = "inp" /\ p.inp # NULL)},
     tix |-> tix]

\* NextPos with the tests of `&&` and `||` exchanged.
NextPos_Swapped(op, pos, ret) ==
    IF pos = 0 /\ ( \/ (op = "&&" /\ ret # 0)
                    \/ (op = "||" /\ ret = 0)
                    \/ op = ";" )
    THEN 1
    ELSE 2

\* NextPos with `;` treated like `&&`.
NextPos_SemicolonAsAnd(op, pos, ret) ==
    IF pos = 0 /\ ( \/ (op = "&&" /\ ret = 0)
                    \/ (op = "||" /\ ret # 0)
                    \/ (op = ";" /\ ret = 0) )
    THEN 1
    ELSE 2

\* Where execute_command() goes after a command at position pos returned
\* ret: the second command of `&&` runs after status 0, of `||` after a
\* nonzero status, of `;` always.
NextPos(op, pos, ret) ==
    IF pos = 0 /\ ( \/ (op = "&&" /\ ret = 0)
                    \/ (op = "||" /\ ret # 0)
                    \/ op = ";" )
    THEN 1
    ELSE 2

\* SavesHistory without the test of a leading '#'.
SavesHistory_NoHashTest(f) ==
    \/ f.op # NULL
    \/ /\ f.cmds[1] # "!history"
       /\ Ch(f.cmds[1], 1) \notin {"!"}

\* SavesHistory with the test of the first command applied to lines with a
\* logical operator too.
SavesHistory_FirstCommandOnly(f) ==
    /\ f.cmds[1] # "!history"
    /\ Ch(f.cmds[1], 1) \notin {"#", "!"}

\* The test before the history is written: always for a line with a logical
\* operator; otherwise unless the command is !history or starts with # or !.
SavesHistory(f) ==
    \/ f.op # NULL
    \/ /\ f.cmds[1] # "!history"
       /\ Ch(f.cmds[1], 1) \notin {"#", "!"}

\* A call of execute_command(text) with stk the invocations in progress and
\* o, a, i the redirection fields: the loop runs (p is its result), stores
\* the redirection targets it met and a new frame starts.  crash: an
\* overrun of current_command ends the process.
Enter(text, p, hidx, tix, crash, stk, o, a, i) ==
    LET fr == Frame(text, p, hidx, tix)
        outer == [k \in 1 .. Len(stk) |->
                     [stk[k] EXCEPT !.own = @ \ fr.own]]
    IN  IF p.segv \/ (p.overrun /\ crash) \/ Len(stk) >= MaxDepth
        THEN [pc |-> "crashed", stack |-> stk, out |-> o, app |-> a, inp |-> i]
        ELSE [pc |-> "exec", stack |-> Append(outer, fr),
              out |-> IF p.out # NULL THEN p.out ELSE o,
              app |-> IF p.app # NULL THEN p.app ELSE a,
              inp |-> IF p.inp # NULL THEN p.inp ELSE i]

\* The entry of trace for a command dispatched by invocation number depth:
\* the command, what it returned and printed, its child or the target of
\* its signal (pid; alive and tracked: a process with that PID existed, and
\* was in background_jobs, when the command was dispatched), how a
\* foreground child ended, the history entry a re-invocation runs, and the
\* working directory when the command was dispatched.
TraceEntry(depth, cmd, e, ret) ==
    [depth |-> depth, cmd |-> cmd, ext |-> e.ext, ret |-> ret, msg |-> e.msg,
     pid |-> e.pid, bg |-> e.bg, exited |-> e.child.exited,
     code |-> e.child.code, why |-> e.child.why,
     alive |-> ProcessExists(procs, e.pid),
     tracked |-> \E i \in 1 .. Len(background_jobs) :
                    background_jobs[i] = e.pid,
     hidx |-> e.hidx, cwd |-> cwd, rows |-> e.rows, says |-> e.child.says,
     ends |-> e.child.ends, unreadable |-> e.unreadable]

Top == stack[Len(stack)]

SetTop(stk, f) == [stk EXCEPT ![Len(stk)] = f]

\* The frames after a command cleared the redirection fields.
Disown(stk, cleared) ==
    IF cleared THEN [k \in 1 .. Len(stk) |-> [stk[k] EXCEPT !.own = {}]]
    ELSE stk

(***************************************************************************)
(* The lines the user types.  Each session draws its lines from one menu.  *)
(***************************************************************************)
Menus ==
    << \* logical operators
       {"true && false\n", "false && true\n", "true || false\n",
        "false || ps\n", "false; true\n", "kill 9 && true\n",
        "exit; true\n", "sleep 5 & \n"},
       \* background jobs and kill
       {"sleep 5 &\n", "sleep 7&\n", "kill 2\n", "kill 3\n", "kill 9\n",
        "true\n", "exit\n"},
       \* background jobs, stop and cont
       {"sleep 5 &\n", "stop 2\n", "cont 2\n", "stop 9\n", "cont 9\n",
        "kill 2\n"},
       \* history
       {"true\n", "false \n", "!history\n", "#0\n", "!tr\n", "#0 && true\n",
        "sleep 5 &\n", "|| !history\n"},
       \* redirection
       {"true\n", "false > f\n", "true > f\n", "cat < nofile\n", "nosuch\n",
        "ps > f\n", "sleep 5 > f &\n", "false &\n"},
       \* history: indices and prefixes without an entry
       {"true\n", "false\n", "#9\n", "#-1\n", "#1\n", "!zz\n", "!\n",
        "#9 && true\n"},
       \* cd
       {"cd a\n", "cd b\n", "cd a/b\n", "cd a; cd b\n", "cd\n", "cd nodir\n",
        "cd /home\n", "cd nodir && true\n"},
       \* ps
       {"sleep 5 &\n", "sleep 7& && ps\n", "ps\n", "ps && true\n"},
       \* output files
       {"echo hello > f\n", "echo hi > f\n", "echo hi >> f\n", "true > f\n"},
       \* operators without operands
       {"true > \n", "true >\n", "cat < \n", "&& true\n", "true && \n",
        "; true\n", "true\n"},
       \* background marker as a suffix, re-invoked
       {"sleep 7&\n", "#0\n", "!sl\n"},
       \* two logical operators
       {"true && false || true\n", "false && true || true\n",
        "false || true && true\n", "true; false && true\n"},
       \* stop, then cont or kill
       {"sleep 5 &\n", "stop 2; cont 2\n", "stop 2; kill 2\n", "kill 2\n"},
       \* a logical operator and a redirection
       {"echo hi && true > f\n", "false || echo hi > f\n",
        "echo a; echo b > f\n", "cd /home && echo hi > f\n"} >>

MenuLines(m) == Menus[m]

\* The sessions started with -h <file>: those of the two history menus,
\* with or without it.
HistoryOption(m) == IF m \in {4, 6} THEN BOOLEAN ELSE {FALSE}

\* The paths of the file table.
Paths == {"f", "g", "nofile", GARBAGE}

(***************************************************************************)
(* shell(): the state when the read loop starts.  With -h the history is   *)
(* loaded by handle_history_file(): every line of the file, its newline    *)
(* included, becomes an entry.                                             *)
(***************************************************************************)
HistoryFiles == {<<"true">>}

handle_history_file(lines) == [k \in 1 .. Len(lines) |-> lines[k] \o "\n"]

Init ==
    /\ pc = "prompt"
    /\ command = NULL
    /\ stack = <<>>
    /\ menu \in 1 .. Len(Menus)
    /\ history_file \in HistoryOption(menu)
    /\ hfile \in (IF history_file THEN HistoryFiles ELSE {<<>>})
    /\ previous_commands = handle_history_file(hfile)
    /\ background_jobs = <<>>
    /\ background_jobs_commands = <<>>
    /\ output_file = NULL
    /\ append_file = NULL
    /\ input_file = NULL
    /\ procs = [p \in Pids |-> "none"]
    /\ exitcode = [p \in Pids |-> 0]
    /\ fs = [p \in Paths |-> ABSENT]
    /\ cwd = "/home"
    /\ nread = 0
    /\ trace = <<>>
    /\ hist0 = previous_commands
    /\ sigints = 0

\* Whether the process survives an overrun of current_command, when the
\* assembly of a line had one.
Overruns(p) == IF p.overrun THEN {FALSE, TRUE} ELSE {FALSE}

\* The choices the system has when invocation f dispatches its next command
\* (see Dispatch).
DispatchChoices(f) ==
    LET k == f.pos + 1
        cmd == IF k <= Len(f.cmds) THEN f.cmds[k] ELSE NULL
        c == Ch(cmd, 1)
        dangling == DANGLING \in {output_file, append_file, input_file}
    IN  IF cmd = NULL \/ Tokens(cmd) = <<>> THEN {"ok"}
        ELSE IF c \in {"#", "!"} THEN {"ok", "crash"}
        ELSE IF is_builtin_command(cmd)
        THEN {"ok"} \cup (IF trim_space(Tokens(cmd)[1]) = "ps"
                             /\ background_jobs # <<>>
                          THEN {"proc_failed"} ELSE {})
        ELSE {"ok", "fork_failed"}
             \cup (IF LastCh(cmd) = "&" THEN {} ELSE {"killed"})
             \cup (IF dangling THEN {"junk"} ELSE {})

(***************************************************************************)
(* The read loop of shell(): one line is read; end of input calls          *)
(* exit_shell(); a line that is only a newline is not executed.            *)
(***************************************************************************)
ReadLine ==
    /\ pc = "prompt"
    /\ \E line \in MenuLines(menu) \cup {EOF} :
          IF line = EOF
          THEN /\ pc' = "exited"
               /\ procs' = exit_shell(Effect).procs
               /\ UNCHANGED <<command, stack, output_file, append_file,
                              input_file, nread, trace, hist0>>
          ELSE /\ nread < MaxLines
               /\ nread' = nread + 1
               /\ command' = line
               /\ trace' = <<>>
               /\ hist0' = previous_commands
               /\ procs' = procs
               /\ IF line = "\n"
                  THEN /\ pc' = "reap"
                       /\ UNCHANGED <<stack, output_file, append_file,
                                      input_file>>
                  ELSE \E crash \in Overruns(Parse(line)) :
                         LET r == Enter(line, Parse(line), 0, 0, crash, <<>>,
                                        output_file, append_file, input_file)
                         IN  /\ pc' = r.pc
                             /\ stack' = r.stack
                             /\ output_file' = r.out
                             /\ append_file' = r.app
                             /\ input_file' = r.inp
    /\ UNCHANGED <<previous_commands, history_file, hfile, background_jobs,
                   background_jobs_commands, exitcode, fs, cwd, menu, sigints>>

(***************************************************************************)
(* execute_command() dispatches the command at its position to             *)
(* execute_builtin_command() or execute_external_command().                *)
(* vector_get() past the end of the commands vector fails its assertion.   *)
(* What the code leaves to the system is the choice o:                     *)
(*   "ok"           fork() succeeds and no signal ends the child           *)
(*   "fork_failed"  fork() fails                                           *)
(*   "killed"       a signal ends the foreground child                     *)
(*   "junk"         a dangling redirection pointer reads as a path that    *)
(*                  open() accepts (it does not with the other choices)    *)
(*   "crash"        an overrun in the assembly of a re-invoked history     *)
(*                  entry ends the process                                 *)
(*   "proc_failed"  fopen() of the /proc files of the first job fails      *)
(***************************************************************************)
Dispatch ==
    /\ pc = "exec"
    /\ Top.pos \in {0, 1}
    /\ \E o \in DispatchChoices(Top) :
          LET f == Top
              k == f.pos + 1
              cmd == f.cmds[k]
              fault == k > Len(f.cmds) \/ cmd = NULL \/ Tokens(cmd) = <<>>
              e == IF is_builtin_command(cmd)
                   THEN execute_builtin_command(
                            [Effect EXCEPT !.unreadable =
                                IF o = "proc_failed"
                                THEN {background_jobs[1]} ELSE {}], cmd)
                   ELSE execute_external_command(Effect, cmd,
                            o # "fork_failed", o = "killed",
                            o \in {"junk", "killed"})
              r == Enter(e.callee, Parse(e.callee), e.hidx, Len(trace) + 1,
                         o = "crash", stack, output_file, append_file,
                         input_file)
          IN  IF fault
              THEN /\ pc' = "crashed"
                   /\ UNCHANGED <<stack, output_file, append_file, input_file,
                                  procs, exitcode, fs, cwd, background_jobs,
                                  background_jobs_commands, trace>>
              ELSE IF e.kind = "segv"
              THEN /\ pc' = "crashed"
                   /\ trace' = Append(trace,
                          TraceEntry(Len(stack), cmd, e, PENDING))
                   /\ UNCHANGED <<stack, output_file, append_file, input_file,
                                  procs, exitcode, fs, cwd, background_jobs,
                                  background_jobs_commands>>
              ELSE /\ procs' = e.procs
                   /\ exitcode' = e.exitcode
                   /\ fs' = e.fs
                   /\ cwd' = e.cwd
                   /\ background_jobs' = e.jobs
                   /\ background_jobs_commands' = e.jobcmds
                   /\ CASE e.kind = "return" ->
                             /\ pc' = "exec"
                             /\ stack' = SetTop(Disown(stack, e.cleared),
                                    [f EXCEPT !.pos = NextPos(f.op, f.pos, e.ret),
                                              !.own = IF e.cleared THEN {} ELSE @])
                             /\ output_file' = e.out
                             /\ append_file' = e.app
                             /\ input_file' = e.inp
                             /\ trace' = Append(trace,
                                    TraceEntry(Len(stack), cmd, e, e.ret))
                        [] e.kind = "call" ->
                             /\ pc' = r.pc
                             /\ stack' = r.stack
                             /\ output_file' = r.out
                             /\ append_file' = r.app
                             /\ input_file' = r.inp
                             /\ trace' = Append(trace,
                                    TraceEntry(Len(stack), cmd, e, PENDING))
                        [] e.kind = "exit" ->
                             /\ pc' = "exited"
                             /\ trace' = Append(trace,
                                    TraceEntry(Len(stack), cmd, e, PENDING))
                             /\ UNCHANGED <<stack, output_file, append_file,
                                            input_file>>
    /\ UNCHANGED <<command, previous_commands, history_file, hfile, nread,
                   menu, hist0,
                   sigints>>

(***************************************************************************)
(* The end of execute_command(): the text is trimmed where it lies and     *)
(* pushed onto previous_commands, and written to the history file through  *)
(* a buffer that strcat() extends without initialising it (g is what the   *)
(* buffer held); with a logical operator copy_command is freed.  Then the  *)
(* invocation returns: to the read loop, or to execute_n() or              *)
(* execute_prefix(), which return 0.                                       *)
(***************************************************************************)
Finish ==
    /\ pc = "exec"
    /\ Top.pos = 2
    /\ \E g \in {"", GARBAGE} :
          LET f == Top
              save == SavesHistory(f)
              t == trim_space(f.command)
              h1 == IF f.hidx > 0
                    THEN [previous_commands EXCEPT ![f.hidx] = t]
                    ELSE previous_commands
              freed == IF f.op # NULL THEN f.own ELSE {}
              rest == SubSeq(stack, 1, Len(stack) - 1)
              caller == rest[Len(rest)]
          IN  /\ previous_commands' = IF save THEN Append(h1, t)
                                      ELSE previous_commands
              /\ hfile' = IF save /\ history_file THEN Append(hfile, g \o t)
                          ELSE hfile
              /\ output_file' = IF "out" \in freed THEN DANGLING ELSE output_file
              /\ append_file' = IF "app" \in freed THEN DANGLING ELSE append_file
              /\ input_file' = IF "inp" \in freed THEN DANGLING ELSE input_file
              /\ IF rest = <<>>
                 THEN /\ pc' = "reap"
                      /\ stack' = <<>>
                      /\ trace' = trace
                 ELSE /\ pc' = "exec"
                      /\ stack' = SetTop(rest,
                             [caller EXCEPT !.pos = NextPos(caller.op, caller.pos, 0)])
                      /\ trace' = [trace EXCEPT ![f.tix].ret = 0]
    /\ UNCHANGED <<command, history_file, background_jobs,
                   background_jobs_commands, procs, exitcode, fs, cwd, nread,
                   menu, hist0,
                   sigints>>

(***************************************************************************)
(* The reap poll at the end of a read-loop iteration.                      *)
(***************************************************************************)
\* The loop of remove_background_job(): vector_erase() at index i, then i++.
RECURSIVE EraseLoop(_, _, _)
EraseLoop(jobs, pid, i) ==
    IF i > Len(jobs) THEN jobs
    ELSE IF jobs[i] = pid
         THEN EraseLoop(SubSeq(jobs, 1, i - 1) \o SubSeq(jobs, i + 1, Len(jobs)),
                        pid, i + 1)
         ELSE EraseLoop(jobs, pid, i + 1)

\* remove_background_job(): background_jobs_commands is left as it is.
remove_background_job(e, pid) ==
    kill_process([e EXCEPT !.jobs = EraseLoop(@, pid, 1)], pid)

\* The for loop of shell() over background_jobs: waitpid(WNOHANG) on the
\* job at index i, remove_background_job() when it does not return 0, i++.
RECURSIVE ReapLoop(_, _)
ReapLoop(e, i) ==
    IF i > Len(e.jobs) THEN e
    ELSE LET pid == e.jobs[i]
             w == WaitNoHang(e.procs, pid)
             reaped == IF w = pid THEN [e EXCEPT !.procs[pid] = "gone"] ELSE e
         IN  IF w # 0
             THEN ReapLoop(remove_background_job(reaped, pid), i + 1)
             ELSE ReapLoop(e, i + 1)

ReapPoll ==
    /\ pc = "reap"
    /\ pc' = "prompt"
    /\ background_jobs' = ReapLoop(Effect, 1).jobs
    /\ procs' = ReapLoop(Effect, 1).procs
    /\ UNCHANGED <<command, stack, previous_commands, history_file, hfile,
                   background_jobs_commands, output_file, append_file,
                   input_file, exitcode, fs, cwd, nread, menu, trace, hist0,
                   sigints>>

(***************************************************************************)
(* The children, which run beside the shell.                               *)
(***************************************************************************)
\* A running child terminates of its own accord.
ChildExit ==
    /\ \E pid \in Pids :
          /\ procs[pid] = "running"
          /\ procs' = [procs EXCEPT ![pid] = "zombie"]
    /\ UNCHANGED <<pc, command, stack, previous_commands, history_file, hfile,
                   background_jobs, background_jobs_commands, output_file,
                   append_file, input_file, exitcode, fs, cwd, nread, menu,
                   trace, hist0,
                   sigints>>

\* A child that was sent SIGKILL terminates.
ChildDie ==
    /\ \E pid \in Pids :
          /\ procs[pid] = "dying"
          /\ procs' = [procs EXCEPT ![pid] = "killed"]
    /\ UNCHANGED <<pc, command, stack, previous_commands, history_file, hfile,
                   background_jobs, background_jobs_commands, output_file,
                   append_file, input_file, exitcode, fs, cwd, nread, menu,
                   trace, hist0,
                   sigints>>

(***************************************************************************)
(* SIGINT.  shell() installs handle_sigint() with signal() before anything *)
(* else; the handler prints only for signal number 0 and returns, and the  *)
(* shell goes on where it was.                                             *)
(***************************************************************************)
\* The sessions in which the user sends SIGINT.
SignalMenus == {5}

\* The disposition of SIGINT with the default action left in place.
SigintDisposition_Default == "SIG_DFL"

\* The disposition of SIGINT after signal(SIGINT, handle_sigint).
SigintDisposition == "handle_sigint"

Interrupt ==
    /\ pc \in {"prompt", "exec", "reap"}
    /\ menu \in SignalMenus
    /\ sigints < MaxSignals
    /\ sigints' = sigints + 1
    /\ pc' = IF SigintDisposition = "handle_sigint" THEN pc ELSE "terminated"
    /\ UNCHANGED <<command, stack, previous_commands, history_file, hfile,
                   background_jobs, background_jobs_commands, output_file,
                   append_file, input_file, procs, exitcode, fs, cwd, nread,
                   menu, trace, hist0>>

Next ==
    \/ ReadLine \/ Dispatch \/ Finish \/ ReapPoll \/ ChildExit \/ ChildDie
    \/ Interrupt

Spec == Init /\ [][Next]_vars


(***************************************************************************)
(* Properties.  They read the commands dispatched for the line read last   *)
(* (trace) and the history when that line was read (hist0).                *)
(***************************************************************************)
\* Every line of every menu, and what the assembly loop makes of it.
AllLines == UNION {Menus[m] : m \in 1 .. Len(Menus)}

LineParse == [l \in AllLines |-> Parse(l)]

\* The texts the history can hold: lines and loaded entries, trimmed once
\* or twice (a re-invocation trims the entry it runs again).
HistoryTexts ==
    LET loaded == UNION {{ls[k] \o "\n" : k \in DOMAIN ls} : ls \in HistoryFiles}
        raw == AllLines \cup loaded
    IN  {trim_space(l) : l \in raw} \cup {trim_space(trim_space(l)) : l \in raw}

TextParse == [t \in HistoryTexts |-> Parse(t)]

ParseOf(text) ==
    IF text \in AllLines THEN LineParse[text]
    ELSE IF text \in HistoryTexts THEN TextParse[text]
    ELSE Parse(text)

\* The commands the invocation for the line itself dispatched, in order.
T1 == SelectSeq(trace, LAMBDA t : t.depth = 1)

\* The line read last is `cmd1 <opr> cmd2` with both commands present.
PairLine(opr) ==
    /\ command \in AllLines
    /\ LET p == LineParse[command]
       IN  /\ ~p.segv
           /\ p.op = opr
           /\ Len(p.cmds) = 2
           /\ \A k \in 1 .. 2 : p.cmds[k] # NULL /\ p.cmds[k] # ""

\* The line read last has no logical operator.
NoOperatorLine ==
    /\ command \in AllLines
    /\ LineParse[command].op = NULL

\* A history-inspection command: a text without a logical operator whose
\* command is !history, #<n> or !<prefix>.
IsInspection(text) ==
    LET p == ParseOf(text)
    IN  /\ ~p.segv
        /\ p.op = NULL
        /\ Len(p.cmds) >= 1
        /\ p.cmds[1] # NULL
        /\ Ch(p.cmds[1], 1) \in {"#", "!"}

\* A line of the history file without the bytes the write buffer held.
StripGarbage(s) ==
    IF HasPrefix(GARBAGE, s) THEN SubSeq(s, Len(GARBAGE) + 1, Len(s)) ELSE s

\* The entries appended to the history list, and the lines appended to the
\* history file, since the line read last was read.
NewEntries == SubSeq(previous_commands, Len(hist0) + 1, Len(previous_commands))

NewFileLines ==
    IF history_file
    THEN SubSeq(hfile, Len(hfile) - Len(NewEntries) + 1, Len(hfile))
    ELSE <<>>

\* A text without its terminating newline.
WithoutNewline(s) == IF LastCh(s) = "\n" THEN DropLast(s) ELSE s

\* A text without any trailing white space.
RECURSIVE WhitespaceTrimmed(_)
WhitespaceTrimmed(s) ==
    IF Len(s) > 0 /\ LastCh(s) \in {" ", "\n", "\r", "\t"}
    THEN WhitespaceTrimmed(DropLast(s))
    ELSE s

\* The job table as `ps` reads it: the PID at each index of background_jobs
\* with the text at the same index of background_jobs_commands.
JobTable ==
    [i \in DOMAIN background_jobs |->
        <<background_jobs[i],
          IF i \in DOMAIN background_jobs_commands
          THEN background_jobs_commands[i] ELSE NULL>>]

JobPids == {background_jobs[i] : i \in DOMAIN background_jobs}

(***************************************************************************)
(* C1.  For a line `cmd1 && cmd2` cmd1 is dispatched first and cmd2 is     *)
(* dispatched if and only if cmd1 returned status 0; for `cmd1 || cmd2`    *)
(* cmd1 is dispatched first and cmd2 if and only if cmd1 returned a        *)
(* nonzero status; built-in or external alike.  As an invariant of the     *)
(* commands dispatched so far: the first is cmd1; a second one is cmd2 and *)
(* is there only after cmd1 returned the status the operator asks for;     *)
(* once cmd1 returned that status cmd2 is the next step; and when the line *)
(* is done cmd2 was dispatched exactly when cmd1's status asked for it.    *)
(***************************************************************************)
Wants(opr, ret) == IF opr = "&&" THEN ret = 0 ELSE ret # 0

C1_AndOr ==
    \A opr \in {"&&", "||"} :
        PairLine(opr) =>
            LET p == LineParse[command]
                t == T1
            IN  /\ Len(t) <= 2
                /\ Len(t) >= 1 => t[1].cmd = p.cmds[1]
                /\ Len(t) = 2 =>
                      /\ t[2].cmd = p.cmds[2]
                      /\ t[1].ret # PENDING
                      /\ Wants(opr, t[1].ret)
                /\ (Len(t) = 1 /\ t[1].ret # PENDING /\ Wants(opr, t[1].ret)) =>
                      pc = "exec" /\ stack[1].pos = 1
                /\ pc \in {"reap", "prompt"} =>
                      /\ Len(t) >= 1
                      /\ t[1].ret # PENDING
                      /\ Len(t) = 2 <=> Wants(opr, t[1].ret)

\* `false || ps` is done: the external command returned nonzero and the
\* built-in was dispatched after it.
C1_Witness ==
    /\ command = "false || ps\n"
    /\ pc = "reap"
    /\ Len(T1) = 2
    /\ T1[1].ext /\ T1[1].ret # 0
    /\ ~T1[2].ext

(***************************************************************************)
(* C2.  For a line `cmd1; cmd2` both commands are dispatched, in that      *)
(* order, whatever status cmd1 returns and whether it is a built-in or an  *)
(* external command: the first command dispatched is cmd1, a second one is *)
(* cmd2, cmd2 is the next step as soon as cmd1 has returned, and a line    *)
(* that is done dispatched both.                                           *)
(***************************************************************************)
C2_Sequence ==
    PairLine(";") =>
        LET p == LineParse[command]
            t == T1
        IN  /\ Len(t) <= 2
            /\ Len(t) >= 1 => t[1].cmd = p.cmds[1]
            /\ Len(t) = 2 => t[2].cmd = p.cmds[2] /\ t[1].ret # PENDING
            /\ (Len(t) = 1 /\ t[1].ret # PENDING) =>
                  pc = "exec" /\ stack[1].pos = 1
            /\ pc \in {"reap", "prompt"} => Len(t) = 2

\* `false; true` is done: cmd1 returned nonzero and cmd2 was dispatched.
C2_Witness ==
    /\ command = "false; true\n"
    /\ pc = "reap"
    /\ Len(T1) = 2
    /\ T1[1].ret # 0
    /\ T1[2].cmd = "true"

(***************************************************************************)
(* C3, as stated.  For every external command line without a logical      *)
(* operator, execute_external_command returns 0 if and only if the spawned *)
(* child exits with status 0.  For a child launched in background the      *)
(* comparison is made once the child has terminated.                       *)
(***************************************************************************)
C3_ReturnsZeroIffChildExitsZero ==
    NoOperatorLine =>
        \A k \in DOMAIN trace :
            LET t == trace[k]
            IN  (t.depth = 1 /\ t.ext) =>
                    IF t.bg /\ t.pid # 0
                    THEN procs[t.pid] \in Terminated =>
                            (t.ret = 0 <=> (/\ procs[t.pid] = "zombie"
                                            /\ exitcode[t.pid] = 0))
                    ELSE t.ret = 0 <=> (t.pid # 0 /\ t.exited /\ t.code = 0)

(***************************************************************************)
(* C3, amended.  For an external command line without a logical operator:  *)
(* a foreground command returns 0 if and only if a child was spawned and   *)
(* exited with status 0 (a nonzero exit, an exec failure, a redirection    *)
(* failure, a child ended by a signal and a fork failure all return        *)
(* nonzero); a command with the background marker returns 0 if and only if *)
(* the child was spawned, whatever status the child exits with.            *)
(***************************************************************************)
C3_ExternalStatus ==
    NoOperatorLine =>
        \A k \in DOMAIN trace :
            LET t == trace[k]
            IN  (t.depth = 1 /\ t.ext) =>
                    /\ t.ret \in {0, 1}
                    /\ IF t.bg
                       THEN t.ret = 0 <=> t.pid # 0
                       ELSE t.ret = 0 <=> (t.pid # 0 /\ t.exited /\ t.code = 0)

\* `cat < nofile` was dispatched: the child could not open its input,
\* exited with status 1, and the command returned 1.
C3_Witness ==
    /\ command = "cat < nofile\n"
    /\ Len(trace) = 1
    /\ trace[1].ext /\ ~trace[1].bg
    /\ trace[1].why = "redirection"
    /\ trace[1].code = 1
    /\ trace[1].ret = 1

(***************************************************************************)
(* C4, as stated.  After execute_command returns for any line,             *)
(* output_file, append_file and input_file are all unset (so that no       *)
(* redirection target is in effect when a command of a later line is       *)
(* launched), whatever the outcome of the line's command.                  *)
(***************************************************************************)
C4_RedirectionUnset ==
    pc \in {"reap", "prompt"} =>
        /\ output_file = NULL
        /\ append_file = NULL
        /\ input_file = NULL

(***************************************************************************)
(* C5, as stated.  Launching an external command with the background       *)
(* marker returns 0 while the child is still running and adds exactly one  *)
(* job to the job table, holding the child's PID and the originating       *)
(* command text (with or without the marker).  A step of the shell that    *)
(* dispatches such a command extends the job table by that one job.        *)
(***************************************************************************)
C5_BackgroundLaunch ==
    [][ ( /\ Len(trace') = Len(trace) + 1
          /\ trace'[Len(trace')].bg
          /\ trace'[Len(trace')].pid # 0 ) =>
            LET t == trace'[Len(trace')]
            IN  /\ t.ret = 0
                /\ procs'[t.pid] = "running"
                /\ Len(JobTable') = Len(JobTable) + 1
                /\ SubSeq(JobTable', 1, Len(JobTable)) = JobTable
                /\ JobTable'[Len(JobTable')][1] = t.pid
                /\ JobTable'[Len(JobTable')][2] \in {t.cmd, DropLast(t.cmd)}
      ]_vars

(***************************************************************************)
(* C6, as stated.  The reap poll is exhaustive: after one poll the job     *)
(* table contains no PID of a process that had terminated and still        *)
(* contains every PID of a process that had not.                           *)
(***************************************************************************)
C6_ReapExhaustive ==
    [][ (pc = "reap" /\ pc' = "prompt") =>
            \A p \in JobPids :
                IF procs[p] \in Terminated
                THEN p \notin JobPids'
                ELSE p \in JobPids'
      ]_vars

(***************************************************************************)
(* C7, as stated.  `kill <pid>` on the PID of a tracked background job     *)
(* sends the process a termination signal and removes the job's entry from *)
(* the job table: when the shell is back at its prompt after such a line,  *)
(* the process is no longer running or stopped and the PID is not in the   *)
(* job table.                                                              *)
(***************************************************************************)
C7_KillRemovesJob ==
    pc = "prompt" =>
        \A k \in DOMAIN trace :
            LET t == trace[k]
            IN  (t.msg = "killed_process" /\ t.tracked) =>
                    /\ procs[t.pid] \notin {"running", "stopped"}
                    /\ t.pid \notin JobPids

(***************************************************************************)
(* C8, as stated.  `kill`, `stop` and `cont` applied to a PID for which no *)
(* process exists report the no-such-process error and return a nonzero    *)
(* status, so that `kill <nonexistent> && cmd2` does not run cmd2.         *)
(***************************************************************************)
IsSignalBuiltin(cmd) ==
    HasPrefix("kill ", cmd) \/ HasPrefix("stop ", cmd) \/ HasPrefix("cont ", cmd)

C8_NoSuchProcess ==
    \A k \in DOMAIN trace :
        LET t == trace[k]
        IN  (IsSignalBuiltin(t.cmd) /\ ~t.alive) =>
                /\ t.msg = "no_process_found"
                /\ t.ret # 0
                /\ (PairLine("&&") /\ t.depth = 1 /\ k = 1) => Len(T1) = 1

(***************************************************************************)
(* C9.  No entry appended to the history during the session is a           *)
(* history-inspection command: executing a line whose command is           *)
(* `!history`, `#<n>` or `!<prefix>` never appends that line to the        *)
(* history list or to the history file.  In every state, none of the       *)
(* entries and file lines appended since the line read last was read is    *)
(* such a command.                                                         *)
(***************************************************************************)
C9_NoInspectionInHistory ==
    /\ \A k \in DOMAIN NewEntries : ~IsInspection(NewEntries[k])
    /\ \A k \in DOMAIN NewFileLines : ~IsInspection(StripGarbage(NewFileLines[k]))
    /\ ~history_file => hfile = <<>>

\* `#0` is done: it ran entry 0 again, and the one entry appended is that
\* entry's text, not `#0`.
C9_Witness ==
    /\ command = "#0\n"
    /\ pc = "reap"
    /\ Len(T1) = 1
    /\ T1[1].hidx = 1
    /\ Len(NewEntries) = 1
    /\ history_file
    /\ Len(NewFileLines) = 1

(***************************************************************************)
(* C10, as stated.  Every executed line that is not a history-inspection   *)
(* command appends exactly one history entry, equal to the original        *)
(* whitespace-trimmed line (a line with a logical operator once, as the    *)
(* unsplit line); a `#<n>` or `!<prefix>` re-invocation of a stored        *)
(* non-inspection command appends exactly one entry, equal to the stored   *)
(* text, and none for the line itself.                                     *)
(***************************************************************************)
\* The line read last ran entry hist0[i] again, so far as it is an
\* inspection command that did so; 0 otherwise.
Reinvoked ==
    IF IsInspection(command) /\ Len(T1) = 1 THEN T1[1].hidx ELSE 0

HashIndex(cmd) ==
    LET token == Tokens(cmd)[1]
    IN  atoi(SubSeq(token, 2, Len(token)))

IsHashCommand(cmd) == cmd # NULL /\ Ch(cmd, 1) = "#"

C11_InvalidIndex ==
    /\ [][ ( /\ Len(trace') = Len(trace) + 1
             /\ IsHashCommand(trace'[Len(trace')].cmd)
             /\ HashIndex(trace'[Len(trace')].cmd)
                    \notin 0 .. Len(previous_commands) - 1 ) =>
               LET t == trace'[Len(trace')]
               IN  /\ t.msg = "invalid_index"
                   /\ t.ret \notin {0, PENDING}
                   /\ t.hidx = 0
                   /\ pc' = "exec"
                   /\ Len(stack') = Len(stack)
                   /\ UNCHANGED <<previous_commands, hfile, background_jobs,
                                  background_jobs_commands, procs>>
         ]_vars
    /\ []( ( /\ pc = "reap"
             /\ NoOperatorLine
             /\ Len(trace) >= 1
             /\ trace[1].msg = "invalid_index" ) =>
               /\ Len(trace) = 1
               /\ previous_commands = hist0 )

\* `#9` is done with one entry in the history: nothing ran, nothing was
\* appended.
C11_Witness ==
    /\ command = "#9\n"
    /\ pc = "reap"
    /\ Len(hist0) = 1
    /\ Len(trace) = 1
    /\ trace[1].msg = "invalid_index"
    /\ trace[1].ret = 1


(***************************************************************************)
(* C12.  `!<prefix>` re-invokes the history entry with the greatest index  *)
(* whose text starts with prefix; with the empty prefix it re-invokes the  *)
(* most recent entry; when no entry starts with prefix (also when the      *)
(* history is empty) it dispatches nothing, reports the no-match error and *)
(* returns nonzero.  Every step that dispatches `!<prefix>` either enters  *)
(* execute_command with the text of that entry, or stays in the same       *)
(* invocation with the no-match message and a nonzero status.              *)
(***************************************************************************)
StartsWith(text, prefix) ==
    /\ Len(prefix) <= Len(text)
    /\ \A i \in 1 .. Len(prefix) : Ch(text, i) = Ch(prefix, i)

IsPrefixCommand(cmd) ==
    /\ cmd # NULL
    /\ Ch(cmd, 1) = "!"
    /\ Tokens(cmd)[1] # "!history"

C12_PrefixReinvocation ==
    [][ ( /\ Len(trace') = Len(trace) + 1
          /\ IsPrefixCommand(trace'[Len(trace')].cmd) ) =>
            LET t == trace'[Len(trace')]
                prefix == SubSeq(t.cmd, 2, Len(t.cmd))
                hits == {i \in DOMAIN previous_commands :
                            StartsWith(previous_commands[i], prefix)}
            IN  IF hits = {}
                THEN /\ t.msg = "no_history_match"
                     /\ t.ret \notin {0, PENDING}
                     /\ t.hidx = 0
                     /\ pc' = "exec"
                     /\ Len(stack') = Len(stack)
                ELSE /\ t.hidx \in hits
                     /\ \A i \in hits : i <= t.hidx
                     /\ prefix = "" => t.hidx = Len(previous_commands)
                     /\ \/ pc' = "crashed"
                        \/ /\ pc' = "exec"
                           /\ Len(stack') = Len(stack) + 1
                           /\ stack'[Len(stack')].command
                                  = previous_commands[t.hidx]
      ]_vars

\* `!` is done with two entries in the history: it ran the second again.
C12_Witness ==
    /\ command = "!\n"
    /\ pc = "reap"
    /\ Len(hist0) = 2
    /\ Len(T1) = 1
    /\ T1[1].hidx = 2
    /\ T1[1].ret = 0


(***************************************************************************)
(* C13.  On `exit` and on end of input the shell sends a termination       *)
(* signal to every job in the job table at that moment and only then       *)
(* terminates with exit status 0: the step that ends the shell leaves the  *)
(* job table as it was, and once the shell has exited no process of a job  *)
(* in the table is running or stopped without the signal.                  *)
(***************************************************************************)
C13_ExitKillsJobs ==
    /\ [][ (pc # "exited" /\ pc' = "exited") =>
               /\ background_jobs' = background_jobs
               /\ \A p \in JobPids :
                     /\ procs[p] \in {"running", "stopped"} => procs'[p] = "dying"
                     /\ procs[p] \notin {"running", "stopped"} => procs'[p] = procs[p]
         ]_vars
    /\ [](pc = "exited" =>
             \A p \in JobPids : procs[p] \notin {"running", "stopped"})

\* The shell has exited with two jobs in the table, both running until
\* then: both got the signal.
C13_Witness ==
    /\ pc = "exited"
    /\ Len(background_jobs) = 2
    /\ \A p \in JobPids : procs[p] = "dying"


(***************************************************************************)
(* C14.  `cd <path>` resolves a non-absolute path against the working      *)
(* directory at the time of the call, so `cd a; cd b` ends in the same     *)
(* directory as `cd a/b`; when the argument is missing or the directory    *)
(* does not exist, `cd` reports an error, returns nonzero and leaves the   *)
(* working directory unchanged.  Every step that dispatches `cd` ends in   *)
(* the directory the path names from the directory the shell was in, with  *)
(* status 0, or where it was with an error and a nonzero status; and a     *)
(* line `cd p; cd q` whose two commands succeeded is done in the directory *)
(* that p/q names from where the line started.                             *)
(***************************************************************************)
\* The directory path names, seen from directory c.
Resolve(c, path) ==
    IF Ch(path, 1) = "/" THEN path
    ELSE IF c = "/" THEN "/" \o path
    ELSE c \o "/" \o path

IsCd(cmd) ==
    /\ cmd # NULL
    /\ HasPrefix("cd", cmd)
    /\ Len(cmd) = 2 \/ Ch(cmd, 3) = " "

IsPs(cmd) == cmd # NULL /\ trim_space(cmd) = "ps"

C15_PsRows ==
    [][ ( /\ Len(trace') = Len(trace) + 1
          /\ IsPs(trace'[Len(trace')].cmd)
          /\ pc' # "crashed" ) =>
            LET t == trace'[Len(trace')]
                n == Len(background_jobs)
            IN  /\ t.ret = 0
                /\ Len(t.rows) = n + 1
                /\ \A i \in 1 .. n : t.rows[i][1] = background_jobs[i]
                /\ t.rows[n + 1][1] = ShellPid
                /\ background_jobs' = background_jobs
      ]_vars

\* `ps` has run with two jobs in the table and printed three rows.
C15_Witness ==
    /\ trace # <<>>
    /\ IsPs(trace[Len(trace)].cmd)
    /\ trace[Len(trace)].ret = 0
    /\ Len(background_jobs) = 2
    /\ Len(trace[Len(trace)].rows) = 3


(***************************************************************************)
(* C16.  For an external command run with `> path`, once the child has     *)
(* finished the file at path contains exactly the child's standard output, *)
(* whatever the file contained before; with `>> path` the file contains    *)
(* its previous content followed by the child's output.  Every step in     *)
(* which a foreground child with an output target runs its program to the  *)
(* end leaves the target holding the program's output, and every such step *)
(* with an append target leaves it holding what it held followed by the    *)
(* program's output.                                                       *)
(***************************************************************************)
\* The step runs a foreground child to the end of its program.
RunsProgram ==
    /\ Len(trace') = Len(trace) + 1
    /\ LET t == trace'[Len(trace')]
       IN  t.ext /\ ~t.bg /\ t.exited /\ t.why = "program"
    /\ input_file = NULL

Printed == ProgramOutput(Tokens(trace'[Len(trace')].cmd), "")

Held(path) == IF fs[path] = ABSENT THEN "" ELSE fs[path]

C16_OutputFileContent ==
    /\ [][ ( /\ RunsProgram
             /\ append_file = NULL
             /\ output_file \notin {NULL, DANGLING} ) =>
               fs'[output_file] = Printed ]_vars
    /\ [][ ( /\ RunsProgram
             /\ output_file = NULL
             /\ append_file \notin {NULL, DANGLING} ) =>
               fs'[append_file] = Held(append_file) \o Printed ]_vars

\* The half of C16 about `>>`, which the shell keeps.
C16_AppendKeepsContent ==
    [][ ( /\ RunsProgram
          /\ output_file = NULL
          /\ append_file \notin {NULL, DANGLING} ) =>
            fs'[append_file] = Held(append_file) \o Printed ]_vars


(***************************************************************************)
(* C17.  A line with a redirection operator (`>`, `>>`, `<`) that has no   *)
(* following token, or with a logical operator (`&&`, `||`, `;`) that      *)
(* lacks its left or right operand, is rejected as a malformed command: no *)
(* command of that line is dispatched, no redirection field stays set, and *)
(* the shell continues with the next line.  While such a line is the line  *)
(* read, nothing has been dispatched, the shell has not been ended by a    *)
(* fault, and once the line is done the three redirection fields are       *)
(* unset.                                                                  *)
(***************************************************************************)
\* The words of a line, its trailing white space left out.
Words(line) == Tokens(WhitespaceTrimmed(line))

Malformed(line) ==
    LET w == Words(line)
    IN  /\ w # <<>>
        /\ \/ w[Len(w)] \in {">", ">>", "<"}
           \/ w[1] \in {"&&", "||", ";"}
           \/ w[Len(w)] \in {"&&", "||"}
           \/ LastCh(w[Len(w)]) = ";"

MalformedLines == {l \in AllLines : Malformed(l)}

C17_MalformedRejected ==
    (command \in MalformedLines) =>
        /\ trace = <<>>
        /\ pc # "crashed"
        /\ pc \in {"reap", "prompt"} =>
              /\ output_file = NULL
              /\ append_file = NULL
              /\ input_file = NULL


(***************************************************************************)
(* C18.  History round trip: when a history file is configured, after any  *)
(* sequence of executed lines the file's lines are exactly the in-memory   *)
(* history entries in order; starting a new shell on that file loads the   *)
(* same entries, with the same text, in the same order, so `!history`      *)
(* after the reload prints the same zero-indexed lines as before.          *)
(* Whenever the shell is at the prompt with a history file, line k of the  *)
(* file is entry k of the history up to its line terminator, and loading   *)
(* the file gives the history the shell holds.                             *)
(***************************************************************************)
C18_HistoryRoundTrip ==
    (history_file /\ pc = "prompt") =>
        /\ hfile = [k \in DOMAIN previous_commands |->
                        WithoutNewline(previous_commands[k])]
        /\ handle_history_file(hfile) = previous_commands


(***************************************************************************)
(* C19.  In the child process of an external command, if opening a         *)
(* redirection target fails or replacing the program image fails, the      *)
(* child reports the failure and terminates with status 1; on no path does *)
(* the child return from execute_external_command into the shell's read    *)
(* loop, touch the job table, or append to the history.  Every step that   *)
(* forks a child has the child leave the code of the shell through exit()  *)
(* or through the new program image; a child whose redirection or whose    *)
(* execvp() failed has printed the matching message and exited with status *)
(* 1; and the step leaves the history list and the history file as they    *)
(* were and the job table as the parent's registration of a background     *)
(* child makes it.                                                         *)
(***************************************************************************)
C19_ChildNeverReturns ==
    [][ ( /\ Len(trace') = Len(trace) + 1
          /\ trace'[Len(trace')].ext
          /\ trace'[Len(trace')].pid # 0 ) =>
            LET t == trace'[Len(trace')]
            IN  /\ t.ends \in {"exit", "image"}
                /\ t.why = "redirection" =>
                      /\ t.says = "redirection_file_error"
                      /\ t.ends = "exit"
                      /\ t.exited /\ t.code = 1
                /\ t.why = "exec" =>
                      /\ t.says = "exec_failed"
                      /\ t.ends = "exit"
                      /\ t.exited /\ t.code = 1
                /\ previous_commands' = previous_commands
                /\ hfile' = hfile
                /\ background_jobs' = IF t.bg
                                      THEN Append(background_jobs, t.pid)
                                      ELSE background_jobs
      ]_vars

\* `nosuch` could not be executed: its child has exited with status 1 and
\* the shell is at the end of the line.
C19_Witness ==
    /\ command = "nosuch\n"
    /\ pc = "reap"
    /\ Len(trace) = 1
    /\ trace[1].why = "exec"
    /\ trace[1].ends = "exit"
    /\ trace[1].code = 1
    /\ trace[1].ret = 1


(***************************************************************************)
(* C20.  A command whose text ends in the background marker `&`, either as *)
(* a separate last token (`sleep 5 &`) or as a suffix of the last token    *)
(* (`sleep 5&`), is launched in background with the marker stripped from   *)
(* the executed text; this holds both for a line typed at the prompt and   *)
(* for the same text re-invoked from history with `#<n>` or `!<prefix>`.   *)
(* A typed line without operator that ends in the marker is done with one  *)
(* background launch whose job text has no marker; and a re-invocation of  *)
(* a history entry that ends in the marker does not end the shell and is   *)
(* followed by a background launch.                                        *)
(***************************************************************************)
EndsInMarker(text) == LastCh(WithoutNewline(text)) = "&"

\* Entry k of the trace re-invokes a history entry that ends in the marker.
ReinvokesMarked(k) ==
    /\ trace[k].hidx \in DOMAIN hist0
    /\ EndsInMarker(hist0[trace[k].hidx])
    /\ LineParse[command].op = NULL

C20_BackgroundMarker ==
    /\ ( /\ pc = "reap"
         /\ NoOperatorLine
         /\ EndsInMarker(command)
         /\ LineParse[command].out = NULL ) =>
           /\ Len(trace) = 1
           /\ trace[1].ext /\ trace[1].bg
           /\ trace[1].pid # 0 =>
                 ~EndsInMarker(
                    background_jobs_commands[Len(background_jobs_commands)])
    /\ (command \in AllLines) =>
          \A k \in DOMAIN trace :
              ReinvokesMarked(k) =>
                  /\ pc # "crashed"
                  /\ pc = "reap" =>
                        /\ k < Len(trace)
                        /\ trace[k + 1].ext /\ trace[k + 1].bg

\* The half of C20 about a typed line, which the shell keeps.
C20_TypedLine ==
    ( /\ pc = "reap"
      /\ NoOperatorLine
      /\ EndsInMarker(command)
      /\ LineParse[command].out = NULL ) =>
        /\ Len(trace) = 1
        /\ trace[1].ext /\ trace[1].bg
        /\ trace[1].pid # 0 =>
              ~EndsInMarker(
                 background_jobs_commands[Len(background_jobs_commands)])


(***************************************************************************)
(* C21.  When a line contains more than one logical operator token, the    *)
(* operator that governs execution is the first one on the line, and the   *)
(* two commands it pairs are the command text before it and the command    *)
(* text after it (for `a && b || c` the shell runs a, then b only if a     *)
(* succeeded).  Once a line with two operators is done, its first command  *)
(* was dispatched first, and its second command was dispatched after it    *)
(* exactly when the first operator of the line asks for it.                *)
(***************************************************************************)
IsOperatorWord(w) == w \in {"&&", "||"} \/ LastCh(w) = ";"

\* The logical operators of a line, in the order they stand on it.
Operators(line) ==
    LET ops == SelectSeq(Words(line), IsOperatorWord)
    IN  [k \in DOMAIN ops |-> IF ops[k] \in {"&&", "||"} THEN ops[k] ELSE ";"]

SeveralOperatorLines == {l \in AllLines : Len(Operators(l)) > 1}

C21_FirstOperatorGoverns ==
    (command \in SeveralOperatorLines /\ pc = "reap") =>
        LET first == Operators(command)[1]
            p == LineParse[command]
            t == T1
        IN  /\ Len(t) \in {1, 2}
            /\ t[1].cmd = p.cmds[1]
            /\ Len(t) = 2 => t[2].cmd = p.cmds[2]
            /\ Len(t) = 2 <=> (first = ";" \/ Wants(first, t[1].ret))

\* The pairing half of C21, with the operator the shell goes by: the last
\* one on the line.
C21_LastOperatorGoverns ==
    (command \in SeveralOperatorLines /\ pc = "reap") =>
        LET ops == Operators(command)
            last == ops[Len(ops)]
            p == LineParse[command]
            t == T1
        IN  /\ Len(t) \in {1, 2}
            /\ t[1].cmd = p.cmds[1]
            /\ Len(t) = 2 => t[2].cmd = p.cmds[2]
            /\ Len(t) = 2 <=> (last = ";" \/ Wants(last, t[1].ret))


(***************************************************************************)
(* C22.  Every line handed to execute_command eventually returns control   *)
(* to the read loop (or ends the shell through `exit`): no error kind      *)
(* aborts the loop, and a `#<n>` or `!<prefix>` re-invocation terminates   *)
(* for every history content that a sequence of input lines can produce,   *)
(* including histories that hold logical-operator lines containing `#<n>`  *)
(* or `!<prefix>`.  The shell is never ended by a fault, and no invocation *)
(* of execute_command runs a history entry that an invocation still in     *)
(* progress is running.                                                    *)
(***************************************************************************)
\* Invocation k re-invokes the history entry that an enclosing invocation
\* is running.
Reenters(k) ==
    /\ stack[k].hidx > 0
    /\ \E j \in 1 .. k - 1 : stack[j].hidx = stack[k].hidx

C22_LineReturns ==
    /\ pc # "crashed"
    /\ \A k \in DOMAIN stack : ~Reenters(k)


(***************************************************************************)
(* C23.  Background job lifecycle: a tracked job becomes stopped only      *)
(* through the built-in `stop` on its PID and becomes running again only   *)
(* through `cont`; it stays in the job table while running or stopped; and *)
(* once it is reaped after exiting, or killed by `kill` or by shell-exit   *)
(* teardown, its entry is removed from the job table and never reappears.  *)
(* In every step: a job that becomes stopped does so in the dispatch of    *)
(* `stop` on its PID, a stopped job that becomes running does so in the    *)
(* dispatch of `cont` on its PID, a job that is running or stopped after   *)
(* the step is still in the table, a job the step reaps is out of the      *)
(* table after it, a job that `kill` was applied to in the line is out of  *)
(* the table after the line's reap poll, and a PID enters the table only   *)
(* when it is new.                                                         *)
(***************************************************************************)
\* The step dispatches a command that prints msg for process p.
Says(msg, p) ==
    /\ Len(trace') = Len(trace) + 1
    /\ trace'[Len(trace')].msg = msg
    /\ trace'[Len(trace')].pid = p

StoppedOnlyByStop(p) ==
    (procs[p] # "stopped" /\ procs'[p] = "stopped") =>
        /\ Says("stopped_process", p)
        /\ Tokens(trace'[Len(trace')].cmd)[1] = "stop"

ResumedOnlyByCont(p) ==
    (procs[p] = "stopped" /\ procs'[p] = "running") =>
        /\ Says("continued_process", p)
        /\ Tokens(trace'[Len(trace')].cmd)[1] = "cont"

StaysWhileAlive(p) ==
    (procs'[p] \in {"running", "stopped"} /\ pc' # "exited") =>
        p \in {background_jobs'[i] : i \in DOMAIN background_jobs'}

RemovedWhenReaped(p) ==
    (procs[p] \in Terminated /\ procs'[p] = "gone") =>
        p \notin {background_jobs'[i] : i \in DOMAIN background_jobs'}

RemovedWhenKilled(p) ==
    ( /\ pc = "reap" /\ pc' = "prompt"
      /\ \E k \in DOMAIN trace :
            /\ trace[k].msg = "killed_process"
            /\ trace[k].pid = p
            /\ trace[k].tracked ) =>
        p \notin {background_jobs'[i] : i \in DOMAIN background_jobs'}

NeverReappears(p) ==
    ( /\ p \notin JobPids
      /\ p \in {background_jobs'[i] : i \in DOMAIN background_jobs'} ) =>
        procs[p] = "none"

C23_JobLifecycle ==
    [][ \A p \in Pids \ {ShellPid} :
            /\ StoppedOnlyByStop(p)
            /\ ResumedOnlyByCont(p)
            /\ StaysWhileAlive(p)
            /\ RemovedWhenReaped(p)
            /\ RemovedWhenKilled(p)
            /\ NeverReappears(p)
      ]_vars

\* C23 without the removal by `kill`, which the shell keeps.
C23_LifecycleButKill ==
    [][ \A p \in Pids \ {ShellPid} :
            /\ StoppedOnlyByStop(p)
            /\ ResumedOnlyByCont(p)
            /\ StaysWhileAlive(p)
            /\ RemovedWhenReaped(p)
            /\ NeverReappears(p)
      ]_vars


(***************************************************************************)
(* C24.  When process creation fails, execute_external_command reports the *)
(* failure and returns 1, and the job table is unchanged, also when the    *)
(* command carried the background marker.  Every step that dispatches an   *)
(* external command without getting a child prints the fork-failure        *)
(* message, gives status 1, and leaves the PID list, the command-text list *)
(* and the processes as they were.                                         *)
(***************************************************************************)
C24_ForkFailure ==
    [][ ( /\ Len(trace') = Len(trace) + 1
          /\ trace'[Len(trace')].ext
          /\ trace'[Len(trace')].pid = 0 ) =>
            LET t == trace'[Len(trace')]
            IN  /\ t.msg = "fork_failed"
                /\ t.ret = 1
                /\ background_jobs' = background_jobs
                /\ background_jobs_commands' = background_jobs_commands
                /\ procs' = procs
                /\ pc' = "exec"
      ]_vars

\* `sleep 5 &` is done without a child: status 1 and an empty job table.
C24_Witness ==
    /\ command = "sleep 5 &\n"
    /\ pc = "reap"
    /\ Len(trace) = 1
    /\ trace[1].ext /\ trace[1].bg
    /\ trace[1].pid = 0
    /\ trace[1].ret = 1
    /\ background_jobs = <<>>
    /\ background_jobs_commands = <<>>


(***************************************************************************)
(* C25.  During `ps`, failure to collect process metadata for one tracked  *)
(* PID (for example the process exited between the last reap poll and the  *)
(* read) does not abort the listing: the rows of the remaining jobs and    *)
(* the shell's own row are still printed, and the shell continues with the *)
(* next line.  Every step that dispatches `ps` while the /proc files of a  *)
(* job cannot be opened leaves the shell running, with status 0 and with   *)
(* the rows of the other jobs in table order followed by the shell's row.  *)
(***************************************************************************)
\* The PIDs of the job table that are not in set u, in table order.
Remaining(u) == SelectSeq(background_jobs, LAMBDA p : p \notin u)

C25_PsSkipsUnreadable ==
    [][ ( /\ Len(trace') = Len(trace) + 1
          /\ IsPs(trace'[Len(trace')].cmd)
          /\ trace'[Len(trace')].unreadable # {} ) =>
            LET t == trace'[Len(trace')]
                rest == Remaining(t.unreadable)
            IN  /\ pc' # "crashed"
                /\ t.ret = 0
                /\ Len(t.rows) = Len(rest) + 1
                /\ \A i \in 1 .. Len(rest) : t.rows[i][1] = rest[i]
                /\ t.rows[Len(rest) + 1][1] = ShellPid
      ]_vars


(***************************************************************************)
(* C26.  Delivery of an interrupt signal (SIGINT) to the shell process at  *)
(* any point of the read-parse-dispatch loop does not terminate the shell  *)
(* and leaves the history list, the job table and the redirection fields   *)
(* unchanged.  Every step in which the signal is delivered leaves the      *)
(* shell at the point of the loop where it was, and leaves the history     *)
(* list, the history file, the two lists of the job table and the three    *)
(* redirection fields as they were.                                        *)
(***************************************************************************)
C26_InterruptIsNoOp ==
    [][ (sigints' # sigints) =>
            /\ pc' = pc
            /\ pc' \in {"prompt", "exec", "reap"}
            /\ stack' = stack
            /\ previous_commands' = previous_commands
            /\ hfile' = hfile
            /\ background_jobs' = background_jobs
            /\ background_jobs_commands' = background_jobs_commands
            /\ output_file' = output_file
            /\ append_file' = append_file
            /\ input_file' = input_file
      ]_vars

\* The signal has been delivered and the shell is in the middle of a line,
\* with a job in the table, an entry in the history and a redirection
\* field set.
C26_Witness ==
    /\ sigints = 1
    /\ pc = "exec"
    /\ background_jobs # <<>>
    /\ previous_commands # <<>>
    /\ output_file # NULL


(***************************************************************************)
(* C27.  After any sequence of background launches, reap polls and kills,  *)
(* the job table's PID list and its command-text list have the same length *)
(* and are index-aligned: the command text that `ps` prints for a tracked  *)
(* PID is the text of the command that launched that PID.  In every state  *)
(* the two lists have the same length, the text at each index is the text  *)
(* that launched the PID at that index, and so is the text of every job    *)
(* row that `ps` printed for the line read last.                           *)
(***************************************************************************)
\* The text that launched background child pid.  Background children get
\* the PIDs after the shell's in the order of their launch and keep them,
\* and every launch appends its text to background_jobs_commands, which
\* nothing ever shortens: the text of the k-th launch is at index k.
LaunchText(pid) == background_jobs_commands[pid - ShellPid]

C27_JobTableAligned ==
    /\ Len(background_jobs) = Len(background_jobs_commands)
    /\ \A i \in DOMAIN background_jobs :
          background_jobs_commands[i] = LaunchText(background_jobs[i])
    /\ \A k \in DOMAIN trace :
          \A i \in 1 .. Len(trace[k].rows) - 1 :
              trace[k].rows[i][2] = LaunchText(trace[k].rows[i][1])


(***************************************************************************)
(* C28.  On a line that has both a logical operator and a redirection      *)
(* (`a && b > f`, `a || b > f`, `a; b > f`), the redirection target is     *)
(* applied to the command segment in which the redirection operator        *)
(* appears (b) and is not applied to the other command of the pair (a).    *)
(* On such a line, every step that launches the child of the first command *)
(* does so with no output target set and leaves the files as they were,    *)
(* and every step that launches the child of the second command does so    *)
(* with the target of the line as output target.                           *)
(***************************************************************************)
\* The line read last is `a <opr> b > f`.
RedirectedPairLine ==
    /\ \E opr \in {"&&", "||", ";"} : PairLine(opr)
    /\ LineParse[command].out # NULL
    /\ Words(command)[Len(Words(command)) - 1] = ">"

C28_RedirectionOnItsSegment ==
    [][ ( /\ RedirectedPairLine
          /\ Len(stack) = 1
          /\ Len(trace') = Len(trace) + 1
          /\ trace'[Len(trace')].ext
          /\ trace'[Len(trace')].pid # 0 ) =>
            IF stack[1].pos = 0
            THEN /\ output_file = NULL
                 /\ fs' = fs
            ELSE output_file = LineParse[command].out
      ]_vars


(***************************************************************************)
(* C29.  The status returned by a successful `#<n>` or `!<prefix>`         *)
(* re-invocation equals the status of the re-invoked command, so that in   *)
(* `#<n> && cmd2` the command cmd2 runs if and only if the re-invoked      *)
(* history entry succeeded.  Once a line whose first command re-invoked a  *)
(* history entry of one command is done, that first command returned 0     *)
(* exactly when the re-invoked command did, and on a `&&` line the second  *)
(* command was dispatched exactly when the re-invoked command returned 0.  *)
(***************************************************************************)
\* What the invocation called by the first command of the line dispatched.
Inner == SelectSeq(trace, LAMBDA t : t.depth = 2)

C29_ReinvocationStatus ==
    ( /\ pc = "reap"
      /\ T1 # <<>>
      /\ T1[1].hidx > 0
      /\ Len(Inner) = 1
      /\ Inner[1].ret # PENDING ) =>
        /\ T1[1].ret = 0 <=> Inner[1].ret = 0
        /\ PairLine("&&") => (Len(T1) = 2 <=> Inner[1].ret = 0)

=============================================================================
